---- MODULE Spec2Model ----
(***************************************************************************)
(* Model of the bar-slice decision core shared by QuadProgStrategy         *)
(* (strategies/quadprog_strategy.py) and MeanReversionStrategy             *)
(* (strategies/portfolio_mean_reversion.py): the on_bars handler with its  *)
(* warm-up abort, RSI/ATR entry filter and trailing stops, and the         *)
(* QuadProgStrategy risk budgeter calculate_unit_weights, and the order    *)
(* price calculate_price.                                                  *)
(*                                                                         *)
(* Prices, ATR and RSI values are integers.  The stop levels               *)
(* intra_trade_high * (1 - trailing_percent/100) are compared exactly, in  *)
(* thousandths: on the price set below the exact comparison and the        *)
(* floating-point comparison of the code agree.                            *)
(***************************************************************************)
EXTENDS Integers, Sequences, FiniteSets, TLC

VARIABLES
    vt_symbols,        \* the instruments the strategy was constructed with
    ams,               \* vt_symbol -> number of bars its ArrayManager holds
    atr_data,          \* dict vt_symbol -> last ATR
    atr_ma,            \* dict vt_symbol -> last ATR moving average
    rsi_data,          \* dict vt_symbol -> last RSI
    intra_trade_high,  \* dict vt_symbol -> stop-tracking high
    intra_trade_low,   \* dict vt_symbol -> stop-tracking low
    target_data,       \* vt_symbol -> target position (set_target)
    signal_strength,   \* dict vt_symbol -> signal strength
    unit_weights,      \* dict vt_symbol -> <<numerator, denominator>>
    bars,              \* the slice handed to the last on_bars call
    current_pos,       \* dict vt_symbol -> what get_pos returned when last read
    previous_pos,      \* dict vt_symbol -> what get_pos returned the time before
    handler,           \* the handler that ran last
    calls,             \* collaborator calls of the last handler, in order
    outcome,           \* how the last handler ended
    repeated,          \* the last on_bars call got the slice of the handler before it
    price              \* <<vt_symbol, direction, reference, result>> of the last
                       \* calculate_price call, <<>> before the first

vars == <<vt_symbols, ams, atr_data, atr_ma, rsi_data, intra_trade_high, intra_trade_low,
          target_data, signal_strength, unit_weights, bars, current_pos,
          previous_pos, handler, calls, outcome, repeated, price>>

----------------------------------------------------------------------------
(* Bounds and program constants *)

\* ArrayManager reports inited once it holds AmSize bars.
AmSize == 2

\* trailing_percent = 0.8, in tenths of a percent
trailing_percent_x10 == 8

\* rsi_buy = 50 + rsi_entry, rsi_sell = 50 - rsi_entry
rsi_entry == 30

fixed_size == 1

price_add == 10

\* calculate_price is given references 1..MaxReference
MaxReference == 12

rsi_buy == 50 + rsi_entry

rsi_sell == 50 - rsi_entry

Symbols == {vt_symbols[i] : i \in 1..Len(vt_symbols)}

Prices == {124, 125, 126}

RsiValues == {rsi_sell - 1, rsi_sell, rsi_buy, rsi_buy + 1}

PosValues == {0 - fixed_size, 0, fixed_size}

StrengthValues == {0 - 1, 0, 1}

----------------------------------------------------------------------------
(* dict helpers *)

EmptyDict == [x \in {} |-> 0]

Put(d, k, v) == [x \in (DOMAIN d) \cup {k} |-> IF x = k THEN v ELSE d[x]]

Max(a, b) == IF a >= b THEN a ELSE b

Min(a, b) == IF a <= b THEN a ELSE b

RECURSIVE SumOver(_, _)
SumOver(d, keys) ==
    IF keys = {} THEN 0
    ELSE LET k == CHOOSE x \in keys : TRUE
         IN d[k] + SumOver(d, keys \ {k})

\* sum(d.values())
SumValues(d) == SumOver(d, DOMAIN d)

----------------------------------------------------------------------------
(* Inputs of on_bars: one entry per instrument of the slice, in the dict's
   iteration order.  high_price, low_price and close_price are the bar;
   atr, atr_ma and rsi are what the instrument's ArrayManager computes after
   update_bar; pos is what get_pos returns for the instrument. *)

\* a bar has low <= close <= high
Bars ==
    {b \in [high_price : Prices, low_price : Prices, close_price : Prices] :
        b.low_price <= b.close_price /\ b.close_price <= b.high_price}

\* ATR above, equal to and below its moving average
AtrPairs == {<<2, 1>>, <<1, 1>>, <<1, 2>>}

Indicators == {[atr |-> a[1], atr_ma |-> a[2], rsi |-> r] : a \in AtrPairs, r \in RsiValues}

\* for an open position: one reading that would enter long and one that would enter short
OpenIndicators == {i \in Indicators : i.atr > i.atr_ma /\ i.rsi \notin {rsi_buy, rsi_sell}}

Inputs ==
    {bar @@ i @@ [pos |-> 0] : bar \in Bars, i \in Indicators}
    \cup {bar @@ i @@ [pos |-> p] : bar \in Bars, i \in OpenIndicators, p \in PosValues \ {0}}

Input(high, low, close, atr, ma, rsi, pos) ==
    [high_price |-> high, low_price |-> low, close_price |-> close,
     atr |-> atr, atr_ma |-> ma, rsi |-> rsi, pos |-> pos]

\* the inputs of the two-instrument portfolio: a flat instrument that enters
\* long, a flat one held back by the ATR gate, a long one stopped out and a
\* long one held
PortfolioInputs ==
    {Input(125, 125, 125, 2, 1, rsi_buy + 1, 0),
     Input(125, 124, 124, 1, 1, rsi_buy + 1, 0),
     Input(125, 124, 124, 2, 1, rsi_buy + 1, fixed_size),
     Input(125, 125, 125, 2, 1, rsi_buy + 1, fixed_size)}

Entry(s, b) == [vt_symbol |-> s] @@ b

\* every slice over the given inputs: a non-empty dict of distinct instruments
SlicesOver(In) ==
    {<<Entry(s, b)>> : s \in Symbols, b \in In}
    \cup {<<Entry(p[1], b), Entry(p[2], c)>> :
            p \in {q \in Symbols \X Symbols : q[1] # q[2]}, b \in In, c \in In}

SliceSymbols(slice) == {slice[i].vt_symbol : i \in 1..Len(slice)}

----------------------------------------------------------------------------
(* ArrayManager *)

\* am.update_bar(bar): one more bar (the count saturates at AmSize)
update_bar(count) == IF count < AmSize THEN count + 1 ELSE count

\* am.inited
inited(count) == count >= AmSize

----------------------------------------------------------------------------
(* The per-instrument decisions of on_bars *)

\* if self.atr_data[vt_symbol] > self.atr_ma[vt_symbol]
EntryGate(atr, ma) == atr > ma

\* mutant: the thresholds themselves enter
EntrySignal_inclusive(rsi) ==
    IF rsi >= rsi_buy THEN fixed_size
    ELSE IF rsi <= rsi_sell THEN 0 - fixed_size
    ELSE 0

\* mutant: a long entry of twice the fixed size
EntrySignal_double_long(rsi) ==
    IF rsi > rsi_buy THEN fixed_size + fixed_size
    ELSE IF rsi < rsi_sell THEN 0 - fixed_size
    ELSE 0

\* the RSI classification behind the gate
EntrySignal(rsi) ==
    IF rsi > rsi_buy THEN fixed_size
    ELSE IF rsi < rsi_sell THEN 0 - fixed_size
    ELSE 0

\* mutant: the running minimum instead of the running maximum
LongHigh_min(prev, high) == Min(prev, high)

\* mutant: the latest high instead of the running maximum
LongHigh_latest(prev, high) == high

\* max(self.intra_trade_high[vt_symbol], bar.high_price)
LongHigh(prev, high) == Max(prev, high)

\* mutant: a close on the stop level does not exit
LongStopHit_strict(high, close) == close * 1000 < high * (1000 - trailing_percent_x10)

\* bar.close_price <= intra_trade_high * (1 - trailing_percent / 100)
LongStopHit(high, close) == close * 1000 <= high * (1000 - trailing_percent_x10)

\* mutant: the latest low instead of the running minimum
ShortLow_latest(prev, low) == low

\* min(self.intra_trade_low[vt_symbol], bar.low_price)
ShortLow(prev, low) == Min(prev, low)

\* mutant: a close on the stop level does not exit
ShortStopHit_strict(low, close) == close * 1000 > low * (1000 + trailing_percent_x10)

\* bar.close_price >= intra_trade_low * (1 + trailing_percent / 100)
ShortStopHit(low, close) == close * 1000 >= low * (1000 + trailing_percent_x10)

Call(op, s, arg) == <<op, s, arg>>

\* self.set_target(vt_symbol, v)
set_target(st, s, v) ==
    [st EXCEPT !.target_data = [@ EXCEPT ![s] = v],
               !.calls = Append(@, Call("set_target", s, v))]

\* mutant: the entry signal is added to the target instead of replacing it
FlatBranch_accumulate(st, b) ==
    LET s == b.vt_symbol
        st1 == [st EXCEPT !.intra_trade_high = Put(@, s, b.high_price),
                          !.intra_trade_low = Put(@, s, b.low_price)]
    IN  IF EntryGate(st1.atr_data[s], st1.atr_ma[s])
        THEN set_target(st1, s, st1.target_data[s] + EntrySignal(st1.rsi_data[s]))
        ELSE st1

\* current_pos == 0
FlatBranch(st, b) ==
    LET s == b.vt_symbol
        st1 == [st EXCEPT !.intra_trade_high = Put(@, s, b.high_price),
                          !.intra_trade_low = Put(@, s, b.low_price)]
    IN  IF EntryGate(st1.atr_data[s], st1.atr_ma[s])
        THEN set_target(st1, s, EntrySignal(st1.rsi_data[s]))
        ELSE st1

\* current_pos > 0; reading a missing intra_trade_high entry raises KeyError
LongBranch(st, b) ==
    LET s == b.vt_symbol IN
    IF s \notin DOMAIN st.intra_trade_high
    THEN [st EXCEPT !.outcome = "KeyError"]
    ELSE LET high == LongHigh(st.intra_trade_high[s], b.high_price)
             st1 == [st EXCEPT !.intra_trade_high = Put(@, s, high),
                               !.intra_trade_low = Put(@, s, b.low_price)]
         IN  IF LongStopHit(high, b.close_price) THEN set_target(st1, s, 0) ELSE st1

\* current_pos < 0; reading a missing intra_trade_low entry raises KeyError
ShortBranch(st, b) ==
    LET s == b.vt_symbol IN
    IF s \notin DOMAIN st.intra_trade_low
    THEN [st EXCEPT !.outcome = "KeyError"]
    ELSE LET low == ShortLow(st.intra_trade_low[s], b.low_price)
             st1 == [st EXCEPT !.intra_trade_low = Put(@, s, low),
                               !.intra_trade_high = Put(@, s, b.high_price)]
         IN  IF ShortStopHit(low, b.close_price) THEN set_target(st1, s, 0) ELSE st1

\* the indicator reads and get_pos of one instrument
ReadIndicators(st, b) ==
    LET s == b.vt_symbol IN
    [st EXCEPT !.atr_data = Put(@, s, b.atr),
               !.atr_ma = Put(@, s, b.atr_ma),
               !.rsi_data = Put(@, s, b.rsi),
               !.current_pos = Put(@, s, b.pos),
               !.previous_pos = IF s \in DOMAIN st.current_pos
                                THEN Put(@, s, st.current_pos[s])
                                ELSE @,
               !.calls = Append(@, Call("get_pos", s, b.pos))]

\* mutant: the entry signal is evaluated whatever the position
Decide_signal_always(st, b) == FlatBranch(ReadIndicators(st, b), b)

\* the body of the second loop for one initialized instrument
Decide(st, b) ==
    LET st1 == ReadIndicators(st, b) IN
    IF b.pos = 0 THEN FlatBranch(st1, b)
    ELSE IF b.pos > 0 THEN LongBranch(st1, b)
    ELSE ShortBranch(st1, b)

\* mutant: the instrument is skipped and the slice goes on
WarmupIncomplete_continue(st) == st

\* if not am.inited: return
WarmupIncomplete(st) == [st EXCEPT !.outcome = "aborted"]

\* the second loop, from the i-th instrument of the slice on
RECURSIVE SignalLoop(_, _, _, _)
SignalLoop(st, slice, am, i) ==
    IF i > Len(slice) \/ st.outcome # "running" THEN st
    ELSE IF ~inited(am[slice[i].vt_symbol])
         THEN SignalLoop(WarmupIncomplete(st), slice, am, i + 1)
         ELSE SignalLoop(Decide(st, slice[i]), slice, am, i + 1)

\* self.rebalance_portfolio(bars); self.put_event()
Rebalance(st) ==
    IF st.outcome = "running"
    THEN [st EXCEPT !.calls = @ \o <<Call("rebalance_portfolio", "", 0),
                                     Call("put_event", "", 0)>>,
                    !.outcome = "returned"]
    ELSE st

\* the first loop
UpdateBars(slice) ==
    [s \in Symbols |-> IF s \in SliceSymbols(slice) THEN update_bar(ams[s]) ELSE ams[s]]

\* mutant: only the first instrument of the slice is updated ahead of the decisions
UpdateCalls_first_only(slice) == <<Call("update_bar", slice[1].vt_symbol, 0)>>

UpdateCalls(slice) == [i \in 1..Len(slice) |-> Call("update_bar", slice[i].vt_symbol, 0)]

\* the handler, on one slice
on_bars(slice) ==
    LET am == UpdateBars(slice)
        st0 == [atr_data |-> atr_data, atr_ma |-> atr_ma, rsi_data |-> rsi_data,
                intra_trade_high |-> intra_trade_high,
                intra_trade_low |-> intra_trade_low,
                target_data |-> target_data, current_pos |-> current_pos,
                previous_pos |-> previous_pos,
                calls |-> UpdateCalls(slice), outcome |-> "running"]
    IN  \E st \in {Rebalance(SignalLoop(st0, slice, am, 1))} :
        /\ ams' = am
        /\ atr_data' = st.atr_data
        /\ atr_ma' = st.atr_ma
        /\ rsi_data' = st.rsi_data
        /\ intra_trade_high' = st.intra_trade_high
        /\ intra_trade_low' = st.intra_trade_low
        /\ target_data' = st.target_data
        /\ current_pos' = st.current_pos
        /\ previous_pos' = st.previous_pos
        /\ calls' = st.calls
        /\ outcome' = st.outcome
        /\ bars' = slice
        /\ handler' = "on_bars"
        /\ repeated' = (handler = "on_bars" /\ slice = bars)
        /\ UNCHANGED <<vt_symbols, signal_strength, unit_weights, price>>

----------------------------------------------------------------------------
(* The risk budgeter of QuadProgStrategy *)

\* the signal strengths a caller can have left in self.signal_strength
StrengthDicts ==
    {EmptyDict} \cup UNION {[D -> StrengthValues] : D \in (SUBSET Symbols) \ {{}}}

\* a write of self.signal_strength
set_signal_strength(d) ==
    /\ signal_strength' = d
    /\ UNCHANGED <<vt_symbols, ams, atr_data, atr_ma, rsi_data, intra_trade_high,
                   intra_trade_low, target_data, unit_weights, bars, current_pos,
                   previous_pos, handler, calls, outcome, repeated, price>>

\* mutant: the strength is stored without the division by the total
UnitWeight_unnormalised(strength, total_strength) == <<strength, 1>>

\* strength / total_strength, as the fraction <<numerator, denominator>>
UnitWeight(strength, total_strength) == <<strength, total_strength>>

\* the loop over self.signal_strength.items(): with a zero total the first
\* division raises ZeroDivisionError, after self.unit_weights = {}
WeightLoop(strengths, total_strength) ==
    IF total_strength = 0
    THEN EmptyDict
    ELSE [s \in DOMAIN strengths |-> UnitWeight(strengths[s], total_strength)]

WeightOutcome(strengths, total_strength) ==
    IF total_strength = 0 /\ DOMAIN strengths # {}
    THEN "ZeroDivisionError"
    ELSE "returned"

calculate_unit_weights ==
    /\ unit_weights' = WeightLoop(signal_strength, SumValues(signal_strength))
    /\ outcome' = WeightOutcome(signal_strength, SumValues(signal_strength))
    /\ handler' = "calculate_unit_weights"
    /\ calls' = <<>>
    /\ UNCHANGED <<vt_symbols, ams, atr_data, atr_ma, rsi_data, intra_trade_high,
                   intra_trade_low, target_data, signal_strength, bars, current_pos,
                   previous_pos, repeated, price>>

----------------------------------------------------------------------------
(* The order price *)

\* Direction.LONG, Direction.SHORT, Direction.NET
Directions == {"LONG", "SHORT", "NET"}

References == 1..MaxReference

\* mutant: the offset is applied the wrong way round
calculate_price_swapped(vt_symbol, direction, reference) ==
    IF direction = "LONG" THEN reference - price_add ELSE reference + price_add

\* the value calculate_price returns
calculate_price(vt_symbol, direction, reference) ==
    IF direction = "LONG" THEN reference + price_add ELSE reference - price_add

\* one call of calculate_price, its arguments and result kept in price
PriceCall(vt_symbol, direction, reference) ==
    /\ price' = <<vt_symbol, direction, reference,
                  calculate_price(vt_symbol, direction, reference)>>
    /\ UNCHANGED <<vt_symbols, ams, atr_data, atr_ma, rsi_data, intra_trade_high,
                   intra_trade_low, target_data, signal_strength, unit_weights, bars,
                   current_pos, previous_pos, handler, calls, outcome, repeated>>

----------------------------------------------------------------------------
\* the state after __init__ for the given vt_symbols
Constructed(symbols) ==
    /\ vt_symbols = symbols
    /\ ams = [s \in {symbols[i] : i \in 1..Len(symbols)} |-> 0]
    /\ atr_data = EmptyDict
    /\ atr_ma = EmptyDict
    /\ rsi_data = EmptyDict
    /\ intra_trade_high = EmptyDict
    /\ intra_trade_low = EmptyDict
    /\ target_data = [s \in {symbols[i] : i \in 1..Len(symbols)} |-> 0]
    /\ signal_strength = EmptyDict
    /\ unit_weights = EmptyDict
    /\ bars = <<>>
    /\ current_pos = EmptyDict
    /\ previous_pos = EmptyDict
    /\ handler = "__init__"
    /\ calls = <<>>
    /\ outcome = "constructed"
    /\ repeated = FALSE
    /\ price = <<>>

\* a strategy on one instrument, fed every input
Init == Constructed(<<"A">>)

OnBars == \E slice \in SlicesOver(Inputs) : on_bars(slice)

Next == OnBars

Spec == Init /\ [][Next]_vars

\* a portfolio of two instruments, fed the portfolio inputs, with the signal
\* strengths empty, cancelling out or adding up
InitPortfolio == Constructed(<<"A", "B">>)

OnBarsPortfolio == \E slice \in SlicesOver(PortfolioInputs) : on_bars(slice)

PortfolioStrengths ==
    {EmptyDict, [s \in Symbols |-> IF s = vt_symbols[1] THEN 1 ELSE 0 - 1],
     [s \in Symbols |-> 1]}

SetStrengthPortfolio == \E d \in PortfolioStrengths : set_signal_strength(d)

NextPortfolio == OnBarsPortfolio \/ SetStrengthPortfolio

SpecPortfolio == InitPortfolio /\ [][NextPortfolio]_vars

\* the budgeter alone, on every signal-strength dict of two instruments
InitBudget == Constructed(<<"A", "B">>)

SetStrength == \E d \in StrengthDicts : set_signal_strength(d)

CalculateUnitWeights == calculate_unit_weights

NextBudget == SetStrength \/ CalculateUnitWeights

SpecBudget == InitBudget /\ [][NextBudget]_vars

\* the order price alone, for either instrument under every signal-strength dict
InitPrice == Constructed(<<"A", "B">>)

SetStrengthPrice == \E d \in StrengthDicts : set_signal_strength(d)

CalculatePrice ==
    \E s \in Symbols, direction \in Directions, reference \in References :
        PriceCall(s, direction, reference)

NextPrice == SetStrengthPrice \/ CalculatePrice

SpecPrice == InitPrice /\ [][NextPrice]_vars

----------------------------------------------------------------------------
(* What the last on_bars call did, read from its record *)

CallsOf(op) == {i \in 1..Len(calls) : calls[i][1] = op}

\* the instruments whose position the last on_bars call read
Reached == {calls[i][2] : i \in CallsOf("get_pos")}

\* the instruments whose flat, long or short branch the last call completed
Decided ==
    IF outcome = "KeyError"
    THEN Reached \ {calls[Len(calls)][2]}
    ELSE Reached

Rebalanced == CallsOf("rebalance_portfolio") # {}

TargetCalls(s) == {i \in CallsOf("set_target") : calls[i][2] = s}

\* the slice's entry for instrument s
SliceEntry(s) == bars[CHOOSE i \in 1..Len(bars) : bars[i].vt_symbol = s]

SomeNotInited == \E i \in 1..Len(bars) : ~inited(ams[bars[i].vt_symbol])

----------------------------------------------------------------------------
(* C1: a flat instrument whose ATR is at or below its ATR moving average has
   target 0 after the slice, whatever the RSI and whatever target an earlier
   slice set. *)
C1_GateShutTargetZero ==
    \A s \in Symbols :
        (/\ handler = "on_bars"
         /\ s \in Decided
         /\ current_pos[s] = 0
         /\ SliceEntry(s).atr <= SliceEntry(s).atr_ma)
        => target_data[s] = 0

(* C2: a flat instrument that on_bars reaches with ATR strictly above its ATR
   moving average gets target +fixed_size if RSI > rsi_buy, -fixed_size if
   RSI < rsi_sell and 0 otherwise, the thresholds themselves included. *)
C2_EntryClassification ==
    \A s \in Symbols :
        (/\ handler = "on_bars"
         /\ s \in Decided
         /\ current_pos[s] = 0
         /\ SliceEntry(s).atr > SliceEntry(s).atr_ma)
        => /\ SliceEntry(s).rsi > rsi_buy => target_data[s] = fixed_size
           /\ SliceEntry(s).rsi < rsi_sell => target_data[s] = 0 - fixed_size
           /\ (SliceEntry(s).rsi >= rsi_sell /\ SliceEntry(s).rsi <= rsi_buy)
                => target_data[s] = 0
           /\ Cardinality(TargetCalls(s)) = 1

\* a flat instrument behind an open gate, with RSI on the buy threshold, set to 0
C2_Witness ==
    \E s \in Symbols :
        /\ handler = "on_bars"
        /\ s \in Decided
        /\ current_pos[s] = 0
        /\ SliceEntry(s).atr > SliceEntry(s).atr_ma
        /\ SliceEntry(s).rsi = rsi_buy
        /\ TargetCalls(s) # {}
        /\ target_data[s] = 0

(* C3: a slice with an instrument that is not initialized changes no target
   and no intra_trade_high / intra_trade_low, and calls set_target for none. *)
C3_AbortLeavesStateAlone ==
    [][(handler' = "on_bars" /\ outcome' = "aborted")
        => /\ target_data' = target_data
           /\ intra_trade_high' = intra_trade_high
           /\ intra_trade_low' = intra_trade_low
           /\ \A i \in 1..Len(calls') : calls'[i][1] # "set_target"]_vars

(* C4: rebalance_portfolio is invoked on a slice only if every instrument of
   the slice was initialized. *)
C4_RebalanceOnlyWhenAllInited ==
    (handler = "on_bars" /\ SomeNotInited) => ~Rebalanced

\* an aborted slice whose first instrument was initialized and decided
C4_Witness ==
    /\ handler = "on_bars"
    /\ SomeNotInited
    /\ Decided # {}
    /\ ~Rebalanced

(* C5: on a slice where the signal strengths sum to zero, on_bars does not
   invoke rebalance_portfolio. *)
C5_ZeroStrengthSkipsRebalance ==
    [][(/\ handler' = "on_bars"
        /\ signal_strength' = signal_strength
        /\ SumValues(signal_strength) = 0)
        => ~Rebalanced']_vars

(* C6: calculate_unit_weights never ends in an error, also when the signal
   strengths of a non-empty portfolio sum to zero. *)
C6_NoErrorOnZeroTotal ==
    handler = "calculate_unit_weights" => outcome = "returned"

(* C7: between two consecutive slices that both read an instrument's position
   as > 0, intra_trade_high does not decrease, and so neither does the long
   stop level intra_trade_high * (1 - trailing_percent/100). *)
C7_LongHighNonDecreasing ==
    [][\A s \in Symbols :
        (/\ handler' = "on_bars"
         /\ s \in Decided'
         /\ current_pos'[s] > 0
         /\ s \in DOMAIN current_pos
         /\ current_pos[s] > 0
         /\ s \in DOMAIN intra_trade_high)
        => /\ intra_trade_high'[s] >= intra_trade_high[s]
           /\ intra_trade_high'[s] * (1000 - trailing_percent_x10)
                >= intra_trade_high[s] * (1000 - trailing_percent_x10)]_vars

\* two LONG slices in a row, the later bar's high below the high kept
C7_Witness ==
    \E s \in Symbols :
        /\ handler = "on_bars"
        /\ s \in Decided
        /\ current_pos[s] > 0
        /\ s \in DOMAIN previous_pos
        /\ previous_pos[s] > 0
        /\ intra_trade_high[s] > SliceEntry(s).high_price

(* C8: between two consecutive slices that both read an instrument's position
   as < 0, intra_trade_low does not increase, and intra_trade_high is the
   latest bar's high. *)
C8_ShortLowNonIncreasing ==
    [][\A s \in Symbols :
        (/\ handler' = "on_bars"
         /\ s \in Decided'
         /\ current_pos'[s] < 0
         /\ s \in DOMAIN current_pos
         /\ current_pos[s] < 0
         /\ s \in DOMAIN intra_trade_low)
        => /\ intra_trade_low'[s] <= intra_trade_low[s]
           /\ \E i \in 1..Len(bars') :
                /\ bars'[i].vt_symbol = s
                /\ intra_trade_high'[s] = bars'[i].high_price]_vars

\* two SHORT slices in a row, the later bar's low above the low kept and its
\* high not the high of the slice before
C8_Witness ==
    \E s \in Symbols :
        /\ handler = "on_bars"
        /\ s \in Decided
        /\ current_pos[s] < 0
        /\ s \in DOMAIN previous_pos
        /\ previous_pos[s] < 0
        /\ intra_trade_low[s] < SliceEntry(s).low_price
        /\ intra_trade_high[s] = SliceEntry(s).high_price

(* C9: a LONG instrument whose close is at or below
   intra_trade_high * (1 - trailing_percent/100), intra_trade_high being the
   updated running high, has set_target(0) called and target 0 after the
   slice. *)
C9_LongStopExits ==
    \A s \in Symbols :
        (/\ handler = "on_bars"
         /\ s \in Decided
         /\ current_pos[s] > 0
         /\ SliceEntry(s).close_price * 1000
              <= intra_trade_high[s] * (1000 - trailing_percent_x10))
        => /\ target_data[s] = 0
           /\ TargetCalls(s) # {}
           /\ intra_trade_high[s] >= SliceEntry(s).high_price

\* a close exactly on the long stop level: 124 against a high of 125
C9_Witness ==
    \E s \in Symbols :
        /\ handler = "on_bars"
        /\ s \in Decided
        /\ current_pos[s] > 0
        /\ SliceEntry(s).close_price * 1000
             = intra_trade_high[s] * (1000 - trailing_percent_x10)
        /\ target_data[s] = 0

(* C10: a SHORT instrument whose close is at or above
   intra_trade_low * (1 + trailing_percent/100), intra_trade_low being the
   updated running low, has set_target(0) called and target 0 after the
   slice. *)
C10_ShortStopExits ==
    \A s \in Symbols :
        (/\ handler = "on_bars"
         /\ s \in Decided
         /\ current_pos[s] < 0
         /\ SliceEntry(s).close_price * 1000
              >= intra_trade_low[s] * (1000 + trailing_percent_x10))
        => /\ target_data[s] = 0
           /\ TargetCalls(s) # {}
           /\ intra_trade_low[s] <= SliceEntry(s).low_price

\* a close exactly on the short stop level: 126 against a low of 125
C10_Witness ==
    \E s \in Symbols :
        /\ handler = "on_bars"
        /\ s \in Decided
        /\ current_pos[s] < 0
        /\ SliceEntry(s).close_price * 1000
             = intra_trade_low[s] * (1000 + trailing_percent_x10)
        /\ target_data[s] = 0

(* C11: on a slice that reads an instrument's position as non-zero, on_bars
   leaves its target alone or sets it to 0, the latter only with the
   trailing stop hit; every set_target it calls for the instrument has
   argument 0, so an entry target is set only with the position read as 0. *)
C11_StopPrecedesSignal ==
    [][\A s \in Symbols :
        (/\ handler' = "on_bars"
         /\ s \in Reached'
         /\ current_pos'[s] # 0)
        => /\ \A i \in 1..Len(calls') :
                (calls'[i][1] = "set_target" /\ calls'[i][2] = s) => calls'[i][3] = 0
           /\ \/ target_data'[s] = target_data[s]
              \/ /\ target_data'[s] = 0
                 /\ \E i \in 1..Len(bars') :
                      /\ bars'[i].vt_symbol = s
                      /\ IF current_pos'[s] > 0
                         THEN bars'[i].close_price * 1000
                                <= intra_trade_high'[s] * (1000 - trailing_percent_x10)
                         ELSE bars'[i].close_price * 1000
                                >= intra_trade_low'[s] * (1000 + trailing_percent_x10)]_vars

\* a short position held through a reading that would enter long: ATR above
\* its average, RSI above rsi_buy, no set_target, the short target kept
C11_Witness ==
    \E s \in Symbols :
        /\ handler = "on_bars"
        /\ s \in Decided
        /\ current_pos[s] < 0
        /\ SliceEntry(s).atr > SliceEntry(s).atr_ma
        /\ SliceEntry(s).rsi > rsi_buy
        /\ TargetCalls(s) = {}
        /\ target_data[s] = 0 - fixed_size

(* C12: within one on_bars call, update_bar has been called for every
   instrument of the slice, in slice order, before the first get_pos or
   set_target and never after; rebalance_portfolio is called after every
   get_pos and set_target of the call, and only once every instrument of
   the slice has been decided. *)
C12_PhaseOrder ==
    handler = "on_bars" =>
        /\ CallsOf("update_bar") = 1..Len(bars)
        /\ \A i \in 1..Len(bars) : calls[i][2] = bars[i].vt_symbol
        /\ \A r \in CallsOf("rebalance_portfolio") :
             \A i \in CallsOf("get_pos") \cup CallsOf("set_target") : i < r
        /\ Rebalanced => Decided = SliceSymbols(bars)

\* a two-instrument slice that set a target and went on to rebalance
C12_Witness ==
    /\ handler = "on_bars"
    /\ Len(bars) = 2
    /\ CallsOf("set_target") # {}
    /\ Rebalanced

(* C13: on every slice that on_bars does not abort, calculate_unit_weights
   and then calculate_unit_var are each called exactly once, after every
   set_target of the slice and before rebalance_portfolio. *)
C13_BudgeterOncePerSlice ==
    (handler = "on_bars" /\ outcome = "returned") =>
        \E w \in CallsOf("calculate_unit_weights"), v \in CallsOf("calculate_unit_var") :
            /\ CallsOf("calculate_unit_weights") = {w}
            /\ CallsOf("calculate_unit_var") = {v}
            /\ w < v
            /\ \A i \in CallsOf("set_target") : i < w
            /\ \A r \in CallsOf("rebalance_portfolio") : v < r

(* C14: a calculate_unit_weights call on signal strengths whose sum is not
   zero leaves unit_weights with exactly one entry per instrument of
   signal_strength, each the instrument's strength over the total of all
   strengths: the numerators add up to the common denominator, so the
   weights sum to 1. *)
C14_WeightsNormalised ==
    [][(/\ handler' = "calculate_unit_weights"
        /\ signal_strength' = signal_strength
        /\ SumValues(signal_strength) # 0)
       => /\ outcome' = "returned"
          /\ DOMAIN unit_weights' = DOMAIN signal_strength
          /\ \A s \in DOMAIN signal_strength :
               /\ unit_weights'[s][1] = signal_strength[s]
               /\ unit_weights'[s][2] = SumValues(signal_strength)
          /\ \A s \in DOMAIN unit_weights' :
               SumValues([x \in DOMAIN unit_weights' |-> unit_weights'[x][1]])
                 = unit_weights'[s][2]]_vars

\* two instruments of strength 1 each, weighted 1/2 and 1/2
C14_Witness ==
    /\ handler = "calculate_unit_weights"
    /\ outcome = "returned"
    /\ DOMAIN signal_strength = Symbols
    /\ Cardinality(Symbols) = 2
    /\ \A s \in Symbols : signal_strength[s] = 1
    /\ DOMAIN unit_weights = Symbols
    /\ \A s \in Symbols : unit_weights[s] = <<1, 2>>

(* C15: calculate_price returns reference + price_add for Direction.LONG and
   reference - price_add for any other direction, whatever the instrument and
   the strategy state, and changes no strategy state; price_add being
   positive, a long price is strictly above its reference and a short price
   strictly below. *)
C15_PriceOffset ==
    [][price' # price =>
        /\ price'[4] = IF price'[2] = "LONG"
                       THEN price'[3] + price_add
                       ELSE price'[3] - price_add
        /\ price'[2] = "LONG" => price'[4] > price'[3]
        /\ price'[2] = "SHORT" => price'[4] < price'[3]
        /\ UNCHANGED <<vt_symbols, ams, atr_data, atr_ma, rsi_data, intra_trade_high,
                       intra_trade_low, target_data, signal_strength, unit_weights>>]_vars

\* a short-direction price below price_add, with signal strengths present
C15_Witness ==
    /\ price # <<>>
    /\ price[2] = "SHORT"
    /\ price[3] < price_add
    /\ price[4] < 0
    /\ signal_strength # EmptyDict

(* C16: an on_bars call that is handed the slice of the on_bars call before
   it (the same bars, indicator values and positions), the earlier call not
   having been aborted for warm-up, makes the same collaborator calls with the
   same arguments and leaves every target, intra_trade_high and
   intra_trade_low as the earlier call left them. *)
C16_SameSliceSameState ==
    [][(/\ handler = "on_bars"
        /\ outcome # "aborted"
        /\ handler' = "on_bars"
        /\ bars' = bars)
       => /\ calls' = calls
          /\ outcome' = outcome
          /\ target_data' = target_data
          /\ intra_trade_high' = intra_trade_high
          /\ intra_trade_low' = intra_trade_low]_vars

\* a long entry signalled for the second time running
C16_Witness ==
    \E s \in Symbols :
        /\ repeated
        /\ outcome = "returned"
        /\ s \in Decided
        /\ current_pos[s] = 0
        /\ s \in DOMAIN previous_pos
        /\ previous_pos[s] = 0
        /\ TargetCalls(s) # {}
        /\ target_data[s] = fixed_size

(* C17: after a calculate_unit_weights call, completed or failed on a zero
   total, unit_weights either holds a fresh weight for every instrument of
   signal_strength or is exactly what it was before the call. *)
C17_WeightsFreshOrKept ==
    [][(/\ handler' = "calculate_unit_weights"
        /\ signal_strength' = signal_strength)
       => \/ unit_weights' = unit_weights
          \/ /\ DOMAIN unit_weights' = DOMAIN signal_strength
             /\ DOMAIN signal_strength # {} => SumValues(signal_strength) # 0
             /\ \A s \in DOMAIN signal_strength :
                  unit_weights'[s] = <<signal_strength[s], SumValues(signal_strength)>>]_vars

(* C18: on_bars never ends on a missing intra_trade_high or intra_trade_low
   entry, whatever position get_pos returns the first time an initialized
   instrument is processed. *)
C18_StopStateAlwaysPresent ==
    handler = "on_bars" => outcome # "KeyError"

(* C19: every target is -fixed_size, 0 or +fixed_size after any sequence of
   on_bars calls from the constructed state, where all targets are 0. *)
C19_TargetInFixedSet ==
    \A s \in Symbols : target_data[s] \in {0 - fixed_size, 0, fixed_size}

\* a short entry target set on a flat slice
C19_Witness ==
    \E s \in Symbols :
        /\ handler = "on_bars"
        /\ s \in Decided
        /\ current_pos[s] = 0
        /\ \E i \in TargetCalls(s) : calls[i][3] = 0 - fixed_size
        /\ target_data[s] = 0 - fixed_size

(* C20: with every bar's low at or below its high, every instrument that has
   an intra_trade_high entry has an intra_trade_low entry at or below it,
   after flat resets, long holds and short holds alike. *)
C20_LowAtMostHigh ==
    \A s \in DOMAIN intra_trade_high :
        /\ s \in DOMAIN intra_trade_low
        /\ intra_trade_low[s] <= intra_trade_high[s]

\* a long hold right after a short hold, the high carried over from an
\* earlier bar and above the low of this one
C20_Witness ==
    \E s \in Symbols :
        /\ handler = "on_bars"
        /\ s \in Decided
        /\ s \in DOMAIN previous_pos
        /\ previous_pos[s] < 0
        /\ current_pos[s] > 0
        /\ intra_trade_high[s] > SliceEntry(s).high_price
        /\ intra_trade_low[s] = SliceEntry(s).low_price
        /\ intra_trade_low[s] < intra_trade_high[s]

====
